---- MODULE Spec2Model ----
(***************************************************************************)
(* Model of createEip1193Provider (src/provider_factory.js): the provider  *)
(* protocol state machine.  One JavaScript job runs at a time: a page call *)
(* (request, enable, send, sendAsync, on, removeListener), a host response *)
(* to an in-flight bridge call, or a host push (_emitFromHost).  A job     *)
(* that emits walks the listener set one listener per step; the promise    *)
(* reaction that delivers the outcome to the caller runs after it.         *)
(*                                                                         *)
(* Spec is the provider with every entry point; SpecEmitter is the Event   *)
(* Bus with handlers that subscribe from inside an emission; SpecAccounts  *)
(* is the account tracking with several calls in flight; SpecPage is the   *)
(* construction itself: EIP-6963 discovery and the window.ethereum global. *)
(***************************************************************************)
EXTENDS Integers, Sequences, FiniteSets, Bags, TLC

\* ------------------------------------------------------------------------
\* JavaScript values: every value is a record [t |-> type tag, v |-> payload]
\* ------------------------------------------------------------------------
Undefined == [t |-> "undefined", v |-> 0]
Null == [t |-> "null", v |-> 0]
Str(s) == [t |-> "string", v |-> s]
Num(n) == [t |-> "number", v |-> n]
Arr(q) == [t |-> "array", v |-> q]
Obj(r) == [t |-> "object", v |-> r]

\* an Error instance: name, message and the optional own properties code, data
Err(name, message, code, data) ==
    [t |-> "error", v |-> [name |-> name, message |-> message, code |-> code, data |-> data]]

\* JavaScript truthiness (used by ||, &&, ! and if)
Truthy(x) ==
    /\ x.t \notin {"undefined", "null"}
    /\ ~(x.t = "string" /\ x.v = "")
    /\ ~(x.t = "number" /\ x.v = 0)

\* a || b
OrElse(a, b) == IF Truthy(a) THEN a ELSE b

\* a && b
AndAlso(a, b) == IF Truthy(a) THEN b ELSE a

\* a ?? b
Coalesce(a, b) == IF a.t \in {"undefined", "null"} THEN b ELSE a

\* x[0]: the first element of an array; undefined for an empty array and for
\* the values without an element 0 (strings are never indexed in this model)
Index0(x) == IF x.t = "array" /\ Len(x.v) > 0 THEN x.v[1] ELSE Undefined

\* x.p for the property names the code reads
Prop(x, p) ==
    IF x.t \in {"object", "error"} /\ p \in DOMAIN x.v THEN x.v[p] ELSE Undefined

\* String.prototype.toLowerCase on the strings of the model: the only strings
\* with upper-case letters that are ever lower-cased are the addresses below
UpperToLower == [s \in {"0xA", "0xB"} |-> IF s = "0xA" THEN "0xa" ELSE "0xb"]

toLowerCase(x) ==
    IF x.v \in DOMAIN UpperToLower THEN Str(UpperToLower[x.v]) ELSE Str(x.v)

\* ------------------------------------------------------------------------
\* Bounds and input domains
\* ------------------------------------------------------------------------
MaxInflight == 1
MaxListeners == 2

INTERNAL_ERROR == -32603

ChainIds == {"0x1", "0x2"}
\* the methods passed to request; eth_requestAccounts is requested by enable
Methods == {"eth_accounts", "eth_chainId", "net_version"}
Events == {"accountsChanged", "chainChanged", "message"}
Handlers == {"hA", "hThrow"}
ListenEvents == {"accountsChanged", "chainChanged"}

\* the provider state is null or an address / chain id string
NoState == [sel |-> Null, chain |-> Null]

\* ------------------------------------------------------------------------
\* Bridge Transport: callHost
\* ------------------------------------------------------------------------
\* a settled promise: kind is "resolve" or "reject" ("none" while unsettled)
Settled(kind, value) == [kind |-> kind, value |-> value]
NoOutcome == Settled("none", Undefined)

\* the host's {result, error} response object and its {code, message, data}
HostResp(result, error) == Obj([result |-> result, error |-> error])
HostErr(code, message, data) == Obj([code |-> code, message |-> message, data |-> data])

UserRejected == HostErr(Num(4001), Str("User rejected"), Undefined)
BareError == HostErr(Undefined, Undefined, Str("details"))
EmptyMessageError == HostErr(Num(4100), Str(""), Undefined)

\* response texts the host may hand back instead of a decoded structure
JsonChain == "{\"result\":\"0x2\"}"
JsonTruncated == "{\"result\":"

\* JSON.parse on those texts: the decoded value, or the SyntaxError it throws
JSONparse(text) ==
    CASE text = JsonChain -> [ok |-> TRUE, value |-> HostResp(Str("0x2"), Undefined)]
      [] OTHER -> [ok |-> FALSE,
                   value |-> Err("SyntaxError", Str("Unexpected end of JSON input"), Undefined, Undefined)]

\* what window.flutter_inappwebview.callHandler may resolve with
AccountResults ==
    {Arr(<<>>), Arr(<<Str("0xa")>>), Arr(<<Str("0xA")>>), Arr(<<Str("0xb"), Str("0xa")>>)}
ChainResults == {Str(c) : c \in ChainIds}
HostResults == AccountResults \cup ChainResults
HostErrors == {UserRejected, BareError, EmptyMessageError}
HostTexts == {JsonChain, JsonTruncated}
RawResponses ==
    {Undefined, Null}
      \cup {HostResp(r, Undefined) : r \in HostResults}
      \cup {HostResp(Undefined, e) : e \in HostErrors}
      \cup {Str(x) : x \in HostTexts}

\* lines 53-57 with line 55 left out: the rejection carries no code
BridgeUnavailableUncoded ==
    Settled("reject", Err("Error", Str("Bridge not available"), Undefined, Undefined))

\* lines 53-57: the rejection of callHost when the channel is missing
BridgeUnavailable ==
    Settled("reject", Err("Error", Str("Bridge not available"), Num(INTERNAL_ERROR), Undefined))

\* line 53: window.flutter_inappwebview?.callHandler is present; a missing
\* flutter_inappwebview and one without callHandler take the same branch
HasCallHandler(webview) == webview = "callHandler"

\* lines 66-69 with line 68 left out: the host's data is dropped
HostErrorWithoutData(error) ==
    Err("Error",
        OrElse(Prop(error, "message"), Str("Provider error")),
        Coalesce(Prop(error, "code"), Num(INTERNAL_ERROR)),
        Undefined)

\* lines 66-69: the Error thrown for a response that carries an error
HostError(error) ==
    Err("Error",
        OrElse(Prop(error, "message"), Str("Provider error")),
        Coalesce(Prop(error, "code"), Num(INTERNAL_ERROR)),
        Prop(error, "data"))

\* lines 60-72 with line 63 turned into a failure: an absent response rejects
DecodeRejectingEmpty(raw) ==
    LET parsed == IF raw.t = "string" THEN JSONparse(raw.v) ELSE [ok |-> TRUE, value |-> raw]
        resp == parsed.value
    IN  IF ~parsed.ok THEN Settled("reject", parsed.value)
        ELSE IF ~Truthy(resp)
        THEN Settled("reject", Err("Error", Str("Provider error"), Num(INTERNAL_ERROR), Undefined))
        ELSE IF Truthy(Prop(resp, "error")) THEN Settled("reject", HostError(Prop(resp, "error")))
        ELSE Settled("resolve", Prop(resp, "result"))

\* lines 60-72: the reaction of callHost to the raw response
Decode(raw) ==
    LET parsed == IF raw.t = "string" THEN JSONparse(raw.v) ELSE [ok |-> TRUE, value |-> raw]
        resp == parsed.value
    IN  IF ~parsed.ok THEN Settled("reject", parsed.value)
        ELSE IF ~Truthy(resp) THEN Settled("resolve", Null)
        ELSE IF Truthy(Prop(resp, "error")) THEN Settled("reject", HostError(Prop(resp, "error")))
        ELSE Settled("resolve", Prop(resp, "result"))

\* ------------------------------------------------------------------------
\* State Tracker: the change detection of the client path and of the host path
\* ------------------------------------------------------------------------
NoEmit == [event |-> "", args |-> Undefined]

\* lines 100-103 with the addresses compared as spelled, not lower-cased
AccountsFromResultCaseSensitive(sel, result) ==
    LET next == OrElse(Index0(result), Null)
        changed == OrElse(next, Str("")) # OrElse(sel, Str(""))
    IN  [sel |-> next,
         emit |-> IF changed
                  THEN [event |-> "accountsChanged",
                        args |-> IF Truthy(next) THEN Arr(<<next>>) ELSE Arr(<<>>)]
                  ELSE NoEmit]

\* lines 100-103: request's account update for an array result
AccountsFromResult(sel, result) ==
    LET next == OrElse(Index0(result), Null)
        changed == toLowerCase(OrElse(next, Str(""))) # toLowerCase(OrElse(sel, Str("")))
    IN  [sel |-> next,
         emit |-> IF changed
                  THEN [event |-> "accountsChanged",
                        args |-> IF Truthy(next) THEN Arr(<<next>>) ELSE Arr(<<>>)]
                  ELSE NoEmit]

\* lines 107-109 with the assignment of line 108 not made when the
\* listeners run: they are told of a chain the provider does not report
ChainFromResultUnassigned(chain, result) ==
    [chain |-> chain,
     emit |-> IF result # chain THEN [event |-> "chainChanged", args |-> result] ELSE NoEmit]

\* lines 107-109: request's chain update for a string result
ChainFromResult(chain, result) ==
    [chain |-> result,
     emit |-> IF result # chain THEN [event |-> "chainChanged", args |-> result] ELSE NoEmit]

\* lines 157-160 with the addresses compared as spelled, not lower-cased
AccountsFromHostCaseSensitive(sel, payload) ==
    LET next == OrElse(AndAlso(payload, Index0(payload)), Null)
        changed == OrElse(next, Str("")) # OrElse(sel, Str(""))
    IN  [sel |-> next,
         emit |-> IF changed
                  THEN [event |-> "accountsChanged",
                        args |-> IF Truthy(next) THEN Arr(<<next>>) ELSE Arr(<<>>)]
                  ELSE NoEmit]

\* lines 157-160: the host push of accountsChanged
AccountsFromHost(sel, payload) ==
    LET next == OrElse(AndAlso(payload, Index0(payload)), Null)
        changed == toLowerCase(OrElse(next, Str(""))) # toLowerCase(OrElse(sel, Str("")))
    IN  [sel |-> next,
         emit |-> IF changed
                  THEN [event |-> "accountsChanged",
                        args |-> IF Truthy(next) THEN Arr(<<next>>) ELSE Arr(<<>>)]
                  ELSE NoEmit]

\* lines 162-164 with the test of line 164 left out: every push is announced
ChainFromHostAlwaysEmitting(chain, payload) ==
    [chain |-> payload, emit |-> [event |-> "chainChanged", args |-> payload]]

\* lines 162-164: the host push of chainChanged
ChainFromHost(chain, payload) ==
    [chain |-> payload,
     emit |-> IF payload # chain THEN [event |-> "chainChanged", args |-> payload] ELSE NoEmit]

\* ------------------------------------------------------------------------
\* Provider Core and Legacy Adapter: the calls and their promise reactions
\* ------------------------------------------------------------------------
\* a call in flight: the entry point and the type of its first argument, the
\* reaction chained on callHost ("request": lines 96-113, "payload": lines
\* 138-139), the method, the payload's id, the callback ("none", "ok", or
\* "throws" for one that throws) and what the entry point returned
Call(api, arg, form, method, pid, cb, ret) ==
    [api |-> api, arg |-> arg, form |-> form, method |-> method, pid |-> pid,
     cb |-> cb, ret |-> ret]
NoCall == Call("none", "undefined", "none", "", Undefined, "none", "undefined")

\* lines 94-96: request({method, params}), entered from api with a first
\* argument of type arg
request(api, arg, method) == Call(api, arg, "request", method, Undefined, "none", "promise")

\* line 129: enable()
enable == request("enable", "undefined", "eth_requestAccounts")

\* lines 135-141 and 144-149: the payload form, shared by send and sendAsync
payloadCall(api, payload, cb) ==
    Call(api, "object", "payload", payload.method, payload.id, cb,
         IF cb # "none" THEN "undefined" ELSE "promise")

\* lines 131-142: send(methodOrPayload, paramsOrCallback); paramsOrCallback
\* is "none" when it is no function
send(methodOrPayload, paramsOrCallback) ==
    IF methodOrPayload.t = "string"
    THEN request("send", "string", methodOrPayload.v)
    ELSE payloadCall("send", methodOrPayload.v, paramsOrCallback)

\* lines 144-149: sendAsync(payload, cb)
sendAsync(payload, cb) == payloadCall("sendAsync", payload.v, cb)

\* lines 96-113 with the method test of line 98 left out: the accounts are
\* inferred from the array result of any method
RequestThenAnyMethod(method, sel, chain, host) ==
    LET result == host.value
        keep == [sel |-> sel, chain |-> chain, emit |-> NoEmit, outcome |-> host]
    IN  IF host.kind = "reject" THEN keep
        ELSE IF result.t = "array"
        THEN LET u == AccountsFromResult(sel, result)
             IN  [keep EXCEPT !.sel = u.sel, !.emit = u.emit]
        ELSE IF method = "eth_chainId" /\ result.t = "string"
        THEN LET u == ChainFromResult(chain, result)
             IN  [keep EXCEPT !.chain = u.chain, !.emit = u.emit]
        ELSE keep

\* lines 96-113: the reaction of request to callHost's outcome; a rejection
\* passes through, a result may update the state and ask for an emission
RequestThen(method, sel, chain, host) ==
    LET result == host.value
        keep == [sel |-> sel, chain |-> chain, emit |-> NoEmit, outcome |-> host]
    IN  IF host.kind = "reject" THEN keep
        ELSE IF method \in {"eth_requestAccounts", "eth_accounts"}
        THEN IF result.t = "array"
             THEN LET u == AccountsFromResult(sel, result)
                  IN  [keep EXCEPT !.sel = u.sel, !.emit = u.emit]
             ELSE keep
        ELSE IF method = "eth_chainId"
        THEN IF result.t = "string"
             THEN LET u == ChainFromResult(chain, result)
                  IN  [keep EXCEPT !.chain = u.chain, !.emit = u.emit]
             ELSE keep
        ELSE keep

\* lines 138-139 with the catch of line 139 left out: a failure rejects
EnvelopeRejecting(pid, host) ==
    IF host.kind = "resolve"
    THEN Settled("resolve", Obj([id |-> pid, jsonrpc |-> Str("2.0"), result |-> host.value]))
    ELSE host

\* lines 138-139 (146-147): the envelope the payload form settles with
Envelope(pid, host) ==
    IF host.kind = "resolve"
    THEN Settled("resolve", Obj([id |-> pid, jsonrpc |-> Str("2.0"), result |-> host.value]))
    ELSE Settled("resolve",
            Obj([id |-> pid, jsonrpc |-> Str("2.0"),
                 error |-> Obj([code |-> Coalesce(Prop(host.value, "code"), Num(INTERNAL_ERROR)),
                                message |-> Prop(host.value, "message"),
                                data |-> Prop(host.value, "data")])]))

\* lines 137-139 issued through request instead of callHost: the payload
\* form infers the state as request does
PayloadThenInferring(call, sel, chain, host) ==
    [RequestThen(call.method, sel, chain, host) EXCEPT !.outcome = Envelope(call.pid, host)]

\* lines 137-139: the reaction of the payload form: no state inference
PayloadThen(call, sel, chain, host) ==
    [sel |-> sel, chain |-> chain, emit |-> NoEmit, outcome |-> Envelope(call.pid, host)]

\* the reaction chained on callHost, were request to keep an address that
\* is selected already: the first response wins
ReactionFirstWins(call, sel, chain, host) ==
    IF call.form = "request"
    THEN IF sel # Null /\ call.method \in {"eth_requestAccounts", "eth_accounts"}
         THEN [sel |-> sel, chain |-> chain, emit |-> NoEmit, outcome |-> host]
         ELSE RequestThen(call.method, sel, chain, host)
    ELSE PayloadThen(call, sel, chain, host)

\* the reaction chained on callHost by the call's entry point
Reaction(call, sel, chain, host) ==
    IF call.form = "request"
    THEN RequestThen(call.method, sel, chain, host)
    ELSE PayloadThen(call, sel, chain, host)

\* lines 140 and 148: p.then(r => cb(null, r)).catch(e => cb(e, null))
CallbackError == Err("Error", Str("callback failed"), Undefined, Undefined)

CallbackCalls(cb, p) ==
    IF cb = "none" THEN <<>>
    ELSE IF p.kind = "resolve"
    THEN <<[err |-> Null, res |-> p.value]>>
           \o (IF cb = "throws" THEN <<[err |-> CallbackError, res |-> Null]>> ELSE <<>>)
    ELSE <<[err |-> p.value, res |-> Null]>>

\* lines 155-168 with the addresses of line 158 compared as spelled
emitFromHostCaseSensitive(event, payload, sel, chain) ==
    IF event = "accountsChanged"
    THEN LET u == AccountsFromHostCaseSensitive(sel, payload)
         IN  [sel |-> u.sel, chain |-> chain, emit |-> u.emit]
    ELSE IF event = "chainChanged"
    THEN LET u == ChainFromHost(chain, payload)
         IN  [sel |-> sel, chain |-> u.chain, emit |-> u.emit]
    ELSE [sel |-> sel, chain |-> chain, emit |-> [event |-> event, args |-> payload]]

\* lines 155-168: what _emitFromHost does to the state and what it emits
emitFromHost(event, payload, sel, chain) ==
    IF event = "accountsChanged"
    THEN LET u == AccountsFromHost(sel, payload)
         IN  [sel |-> u.sel, chain |-> chain, emit |-> u.emit]
    ELSE IF event = "chainChanged"
    THEN LET u == ChainFromHost(chain, payload)
         IN  [sel |-> sel, chain |-> u.chain, emit |-> u.emit]
    ELSE [sel |-> sel, chain |-> chain, emit |-> [event |-> event, args |-> payload]]

\* ------------------------------------------------------------------------
\* The state
\* ------------------------------------------------------------------------
VARIABLES
    selectedAddress,  \* _selectedAddress (line 45)
    chainId,          \* _chainId (line 46)
    listeners,        \* emitter._m: event -> the handlers in insertion order
    webview,          \* window.flutter_inappwebview: absent, without or with callHandler
    pending,          \* the bridge calls the host has not answered yet (a bag)
    job,              \* the JavaScript job that is running, or the idle job
    hist,             \* the lower-cased first address of the account update that
                      \* completed last ("none" before the first one)
    announced,        \* the address of the accountsChanged payload emitted last
                      \* (the initial selectedAddress before the first one), as
                      \* SpecAccounts records it
    stale,            \* calls: the calls in flight that were issued before the
                      \* account update processed last (a bag within pending);
                      \* job: the running job answers such a call
    window            \* the page: window.ethereum, the eip6963 listeners, the
                      \* events dispatched on window and what an agent saw of them

\* the state of one provider instance
providerVars == <<selectedAddress, chainId, listeners, webview, pending, job, hist>>

vars == <<selectedAddress, chainId, listeners, webview, pending, job, hist,
          announced, stale, window>>

WebviewStates == {"undefined", "callHandler"}

ChainPayload == Obj([id |-> Num(7), method |-> "eth_chainId"])
AccountsPayload == Obj([id |-> Undefined, method |-> "eth_accounts"])

PushPayloads(event) ==
    IF event = "accountsChanged" THEN AccountResults \cup {Null}
    ELSE IF event = "chainChanged" THEN ChainResults \cup {Null}
    ELSE {Str("hello")}

IdleJob ==
    [stage |-> "idle", call |-> NoCall, channel |-> TRUE, raw |-> Undefined, host |-> NoOutcome,
     before |-> NoState, emit |-> NoEmit, todo |-> <<>>, audience |-> <<>>,
     heard |-> <<>>, logged |-> 0, outcome |-> NoOutcome, cbCalls |-> <<>>]

\* the job of a host push is tagged with the event it pushes
pushCall(event) ==
    Call("_emitFromHost", "string", "push", event, Undefined, "none", "undefined")

\* the stage a job is in once its handler has returned: a promise is settled
\* and its reactions are yet to run; _emitFromHost has returned to the host
AfterHandler(call) == IF call.form = "push" THEN "delivered" ELSE "settled"

\* the job after the handler ran up to its emitter.emit call (r: the reaction;
\* channel: line 53 found the callHandler)
Begin(call, channel, raw, host, r) ==
    [IdleJob EXCEPT
        !.stage = IF r.emit.event # "" THEN "emit" ELSE AfterHandler(call),
        !.call = call, !.channel = channel, !.raw = raw, !.host = host,
        !.before = [sel |-> selectedAddress, chain |-> chainId],
        !.emit = r.emit,
        !.todo = IF r.emit.event # "" THEN listeners[r.emit.event] ELSE <<>>,
        !.audience = IF r.emit.event # "" THEN listeners[r.emit.event] ELSE <<>>,
        !.outcome = r.outcome]

\* lines 51-59: callHost before the host answers: rejected at once without a
\* channel, otherwise not settled yet
callHost(w) == IF ~HasCallHandler(w) THEN BridgeUnavailable ELSE NoOutcome

\* a page call: without a channel its reaction runs on the rejection, with
\* one the call waits for the host (at most limit calls wait at a time)
IssueWithin(call, limit) ==
    /\ job.stage = "idle"
    /\ LET host == callHost(webview)
       IN  IF host.kind = "none"
           THEN /\ BagCardinality(pending) < limit
                /\ pending' = pending (+) SetToBag({call})
                /\ UNCHANGED <<selectedAddress, chainId, job>>
           ELSE LET r == Reaction(call, selectedAddress, chainId, host)
                IN  /\ job' = Begin(call, FALSE, Undefined, host, r)
                    /\ selectedAddress' = r.sel
                    /\ chainId' = r.chain
                    /\ UNCHANGED pending
    /\ UNCHANGED <<listeners, webview, hist>>

Issue(call) == IssueWithin(call, MaxInflight)

Request(method) == Issue(request("request", "object", method))

Enable == Issue(enable)

SendMethod(method) == Issue(send(Str(method), "none"))

SendPayload(payload, cb) == Issue(send(payload, cb))

SendAsync(payload, cb) == Issue(sendAsync(payload, cb))

\* lines 60-72 and the reaction chained on them: the host answers a call
HostRespond(call, raw) ==
    /\ job.stage = "idle"
    /\ BagIn(call, pending)
    /\ pending' = pending (-) SetToBag({call})
    /\ LET host == Decode(raw)
           r == Reaction(call, selectedAddress, chainId, host)
       IN  /\ job' = Begin(call, TRUE, raw, host, r)
           /\ selectedAddress' = r.sel
           /\ chainId' = r.chain
    /\ UNCHANGED <<listeners, webview, hist>>

\* lines 155-168: the host pushes an event
HostPush(event, payload) ==
    /\ job.stage = "idle"
    /\ LET u == emitFromHost(event, payload, selectedAddress, chainId)
           r == [sel |-> u.sel, chain |-> u.chain, emit |-> u.emit,
                 outcome |-> Settled("return", Undefined)]
       IN  /\ job' = Begin(pushCall(event), TRUE, payload, NoOutcome, r)
           /\ selectedAddress' = r.sel
           /\ chainId' = r.chain
    /\ UNCHANGED <<listeners, webview, pending, hist>>

\* the handlers of the page: each reads the provider's state; hThrow throws;
\* hResub re-subscribes hA to the event it hears, by
\* provider.removeListener(event, hA) followed by provider.on(event, hA)
Throws(fn) == fn = "hThrow"
Resubscribes(fn) == fn = "hResub"
ListenerError == Err("Error", Str("listener failed"), Undefined, Undefined)

\* line 38 without the try/catch: the handler's exception leaves forEach
CallUnguarded(fn) == [escaped |-> Throws(fn), logged |-> FALSE]

\* line 38: try { fn(...args) } catch (e) { console.error(e) }
TryCall(fn) == [escaped |-> FALSE, logged |-> Throws(fn)]

\* lines 86-87: the getters a listener reads
GetSelectedAddress == selectedAddress
GetChainId == chainId

\* lines 29 and 33: Set.prototype.add and Set.prototype.delete on a set kept
\* in insertion order
SetAdd(q, h) == IF \E i \in 1..Len(q) : q[i] = h THEN q ELSE Append(q, h)
SetDelete(q, h) == SelectSeq(q, LAMBDA x : x # h)

\* lines 29, 33 and 38: what a handler that runs inside forEach does to the
\* set (set) and to the entries forEach has yet to visit (todo): an entry
\* deleted is not visited, an entry added is appended and visited, also when
\* it was visited before it was deleted
HandlerRuns(fn, set, todo) ==
    IF Resubscribes(fn)
    THEN LET kept == SetDelete(set, "hA")
             left == SetDelete(todo, "hA")
         IN  [set |-> SetAdd(kept, "hA"),
              todo |-> IF SetAdd(kept, "hA") # kept THEN Append(left, "hA") ELSE left]
    ELSE [set |-> set, todo |-> todo]

\* line 38: forEach invokes the next handler of the set
InvokeListener ==
    /\ job.stage = "emit"
    /\ job.todo # <<>>
    /\ LET fn == Head(job.todo)
           c == TryCall(fn)
           seen == [fn |-> fn, sel |-> GetSelectedAddress, chain |-> GetChainId]
           after == HandlerRuns(fn, listeners[job.emit.event], Tail(job.todo))
       IN  /\ job' = IF c.escaped
                      THEN [job EXCEPT
                              !.stage = AfterHandler(job.call),
                              !.heard = Append(@, seen),
                              !.todo = after.todo,
                              !.outcome = IF job.call.form = "push"
                                          THEN Settled("throw", ListenerError)
                                          ELSE Settled("reject", ListenerError)]
                      ELSE [job EXCEPT
                              !.heard = Append(@, seen),
                              !.todo = after.todo,
                              !.logged = @ + (IF c.logged THEN 1 ELSE 0)]
           /\ listeners' = [listeners EXCEPT ![job.emit.event] = after.set]
    /\ UNCHANGED <<selectedAddress, chainId, webview, pending, hist>>

\* lines 103-113, 160-168: emit has returned and the handler returns
FinishEmit ==
    /\ job.stage = "emit"
    /\ job.todo = <<>>
    /\ job' = [job EXCEPT !.stage = AfterHandler(job.call)]
    /\ UNCHANGED <<selectedAddress, chainId, listeners, webview, pending, hist>>

\* the reactions of the caller run: the awaiting caller gets the outcome, or
\* lines 140/148 invoke the callback
Deliver ==
    /\ job.stage = "settled"
    /\ job' = [job EXCEPT !.stage = "delivered",
                          !.cbCalls = CallbackCalls(job.call.cb, job.outcome)]
    /\ UNCHANGED <<selectedAddress, chainId, listeners, webview, pending, hist>>

\* the lower-cased first address of an account update ("" when there is none)
FirstAddress(s) ==
    IF s.t = "array" /\ Len(s.v) > 0 /\ s.v[1].t = "string" THEN toLowerCase(s.v[1]).v ELSE ""

\* the job is an account update: a successful eth_requestAccounts/eth_accounts
\* whose result is an array, or a host push of accountsChanged
IsAccountUpdate(j) ==
    \/ /\ j.call.form = "request"
       /\ j.call.method \in {"eth_requestAccounts", "eth_accounts"}
       /\ j.host.kind = "resolve"
       /\ j.host.value.t = "array"
    \/ /\ j.call.form = "push"
       /\ j.call.method = "accountsChanged"

\* the sequence of addresses an account update carries
Candidate(j) == IF j.call.form = "push" THEN j.raw ELSE j.host.value

\* the job is over: control returns to the event loop
Return ==
    /\ job.stage = "delivered"
    /\ job' = IdleJob
    /\ hist' = IF IsAccountUpdate(job) THEN FirstAddress(Candidate(job)) ELSE hist
    /\ UNCHANGED <<selectedAddress, chainId, listeners, webview, pending>>

Registered == Len(listeners["accountsChanged"]) + Len(listeners["chainChanged"])
                + Len(listeners["message"])

Without(q, h) == SelectSeq(q, LAMBDA x : x # h)

\* lines 29-32, 121: on(event, handler); Set.add of a member changes nothing
On(event, handler) ==
    /\ job.stage = "idle"
    /\ Registered < MaxListeners
    /\ listeners' = [listeners EXCEPT ![event] =
                        IF \E i \in 1..Len(@) : @[i] = handler THEN @ ELSE Append(@, handler)]
    /\ UNCHANGED <<selectedAddress, chainId, webview, pending, job, hist>>

\* lines 33-36, 122: removeListener(event, handler)
RemoveListener(event, handler) ==
    /\ job.stage = "idle"
    /\ listeners' = [listeners EXCEPT ![event] = Without(@, handler)]
    /\ UNCHANGED <<selectedAddress, chainId, webview, pending, job, hist>>

\* the embedder installs or removes the channel between jobs
WebviewChange(w) ==
    /\ job.stage = "idle"
    /\ w # webview
    /\ webview' = w
    /\ UNCHANGED <<selectedAddress, chainId, listeners, pending, job, hist>>

\* ------------------------------------------------------------------------
\* Construction: legacy globals, EIP-6963 discovery and window.ethereum
\* ------------------------------------------------------------------------
MaxConstructions == 2
MaxRequests == 2

\* the provider object the id-th call of createEip1193Provider builds; a
\* wallet of another vendor is provider 0
Provider(id) == [t |-> "provider", v |-> id]
OtherWallet == Provider(0)

\* a property of window: its value and its configurable attribute
Property(value, configurable) == [value |-> value, configurable |-> configurable]
Absent == Property(Undefined, TRUE)

\* cfg: the options the injection and the discovery read (lines 178, 197, 200)
Configs == [autoInject : BOOLEAN, forceReplace : BOOLEAN, enableEip6963 : BOOLEAN]
DefaultConfig == [autoInject |-> TRUE, forceReplace |-> FALSE, enableEip6963 |-> TRUE]

\* the page before any provider is constructed.  built counts the calls of
\* createEip1193Provider; announcers holds the providers whose announce
\* listens to eip6963:requestProvider; signals counts the ethereum#initialized
\* events dispatched; agent is a
\* discovery agent: whether it listens to eip6963:announceProvider, how many
\* constructions had run when it started to, and, for each request it
\* dispatched, how many had run by then; observed counts the announcements of
\* each provider the agent received; last describes the latest construction
NoConstruction ==
    [id |-> 0, cfg |-> DefaultConfig, before |-> Absent, signals |-> 0, result |-> "none"]

Page(ethereum) ==
    [ethereum |-> ethereum, built |-> 0, announcers |-> {}, signals |-> 0,
     agent |-> [listening |-> FALSE, since |-> 0, requests |-> <<>>],
     observed |-> [i \in 1..MaxConstructions |-> 0],
     last |-> NoConstruction]

\* lines 178-194 with the announce() of line 192 left out: the provider
\* answers requests only
DiscoveryOnRequestOnly(cfg) ==
    [listens |-> cfg.enableEip6963, announces |-> FALSE]

\* lines 178-194: with discovery enabled the provider listens to
\* eip6963:requestProvider (line 191) and announces itself at once (line 192)
Discovery(cfg) ==
    [listens |-> cfg.enableEip6963, announces |-> cfg.enableEip6963]

\* Object.defineProperty(window, 'ethereum', {value, configurable}) (line 201):
\* a property that is not configurable rejects a descriptor that makes it
\* configurable or, being not writable, gives it another value: a TypeError
DefineProperty(current, value, configurable) ==
    IF ~current.configurable /\ (configurable \/ value # current.value)
    THEN [ok |-> FALSE, property |-> current]
    ELSE [ok |-> TRUE, property |-> Property(value, configurable)]

\* lines 197-204 with the test of hasExisting left out
InjectOverExisting(cfg, ethereum, provider) ==
    LET shouldInject == cfg.autoInject
        def == DefineProperty(ethereum, provider, cfg.forceReplace)
    IN  IF shouldInject
        THEN [ethereum |-> def.property, installed |-> def.ok, threw |-> ~def.ok]
        ELSE [ethereum |-> ethereum, installed |-> FALSE, threw |-> FALSE]

\* lines 197-204: the injection; installed: window.ethereum was defined and
\* ethereum#initialized dispatched; threw: defineProperty threw a TypeError,
\* which leaves createEip1193Provider
Inject(cfg, ethereum, provider) ==
    LET shouldInject == cfg.autoInject
        hasExisting == Truthy(ethereum.value)
        def == DefineProperty(ethereum, provider, cfg.forceReplace)
    IN  IF shouldInject /\ (~hasExisting \/ cfg.forceReplace)
        THEN [ethereum |-> def.property, installed |-> def.ok, threw |-> ~def.ok]
        ELSE [ethereum |-> ethereum, installed |-> FALSE, threw |-> FALSE]

\* lines 24-207: createEip1193Provider(cfg) on the page w
construct(w, cfg) ==
    LET id == w.built + 1
        d == Discovery(cfg)
        inj == Inject(cfg, w.ethereum, Provider(id))
    IN  [w EXCEPT
            !.built = id,
            !.announcers = IF d.listens THEN @ \cup {id} ELSE @,
            !.observed[id] = IF d.announces /\ w.agent.listening THEN 1 ELSE 0,
            !.ethereum = inj.ethereum,
            !.signals = IF inj.installed THEN @ + 1 ELSE @,
            !.last = [id |-> id, cfg |-> cfg, before |-> w.ethereum, signals |-> w.signals,
                      result |-> IF inj.threw THEN "TypeError" ELSE "provider"]]

Construct(cfg) ==
    /\ window.built < MaxConstructions
    /\ window' = construct(window, cfg)
    /\ UNCHANGED <<providerVars, announced, stale>>

\* the agent calls window.addEventListener('eip6963:announceProvider', ...)
AgentListen ==
    /\ ~window.agent.listening
    /\ window' = [window EXCEPT !.agent.listening = TRUE, !.agent.since = window.built]
    /\ UNCHANGED <<providerVars, announced, stale>>

\* the agent dispatches eip6963:requestProvider: the announce of every
\* provider that listens runs (lines 186-191) and the agent receives its event
AgentRequest ==
    /\ window.agent.listening
    /\ Len(window.agent.requests) < MaxRequests
    /\ window' = [window EXCEPT
                    !.agent.requests = Append(@, window.built),
                    !.observed = [i \in DOMAIN @ |->
                                    IF i \in window.announcers THEN @[i] + 1 ELSE @[i]]]
    /\ UNCHANGED <<providerVars, announced, stale>>

\* lines 42-46: construction with cfg.initialSelectedAddress / initialChainId
InitProvider ==
    /\ selectedAddress \in {Null, Str("0xa")}
    /\ chainId \in {Null, Str("0x1")}
    /\ listeners = [e \in Events |-> <<>>]
    /\ webview \in WebviewStates
    /\ pending = EmptyBag
    /\ job = IdleJob
    /\ hist = "none"

\* announced and stale observe the account updates; they are recorded by the
\* specification of the account updates only and rest elsewhere
Unobserved ==
    /\ announced = Null
    /\ stale = [calls |-> EmptyBag, job |-> FALSE]

\* the state once createEip1193Provider(cfg) has returned on a page without
\* a wallet
Init ==
    /\ InitProvider
    /\ Unobserved
    /\ window = construct(Page(Absent), DefaultConfig)

\* a step of the provider leaves the page alone
Quiet == UNCHANGED <<announced, stale, window>>

Callbacks == {"ok", "throws"}

Next ==
    \/ (\E m \in Methods : Request(m)) /\ Quiet
    \/ Enable /\ Quiet
    \/ SendMethod("eth_accounts") /\ Quiet
    \/ (\E cb \in {"none", "ok"} : SendPayload(ChainPayload, cb)) /\ Quiet
    \/ SendPayload(AccountsPayload, "none") /\ Quiet
    \/ (\E cb \in Callbacks : SendAsync(AccountsPayload, cb)) /\ Quiet
    \/ (\E c \in DOMAIN pending, raw \in RawResponses : HostRespond(c, raw)) /\ Quiet
    \/ (\E e \in Events : \E p \in PushPayloads(e) : HostPush(e, p)) /\ Quiet
    \/ InvokeListener /\ Quiet
    \/ FinishEmit /\ Quiet
    \/ Deliver /\ Quiet
    \/ Return /\ Quiet
    \/ (\E e \in ListenEvents, h \in Handlers : On(e, h)) /\ Quiet
    \/ (\E e \in ListenEvents, h \in Handlers : RemoveListener(e, h)) /\ Quiet
    \/ (\E w \in WebviewStates : WebviewChange(w)) /\ Quiet

Spec == Init /\ [][Next]_vars

\* the Event Bus on its own: the page subscribes and unsubscribes, also from
\* inside a handler (hResub), and the host pushes the events
EmitterEvents == {"accountsChanged", "message"}
EmitterHandlers == {"hA", "hThrow", "hResub"}

NextEmitter ==
    \/ (\E e \in EmitterEvents, h \in EmitterHandlers : On(e, h)) /\ Quiet
    \/ (\E e \in EmitterEvents, h \in EmitterHandlers : RemoveListener(e, h)) /\ Quiet
    \/ (\E e \in EmitterEvents : \E p \in PushPayloads(e) : HostPush(e, p)) /\ Quiet
    \/ InvokeListener /\ Quiet
    \/ FinishEmit /\ Quiet
    \/ Return /\ Quiet

SpecEmitter == Init /\ [][NextEmitter]_vars

\* the page around the provider: createEip1193Provider is called up to
\* MaxConstructions times, on a page that may hold another wallet, while a
\* discovery agent listens and requests
InitPage ==
    /\ InitProvider
    /\ Unobserved
    /\ window \in {Page(Absent), Page(Property(OtherWallet, TRUE))}

NextPage ==
    \/ \E cfg \in Configs : Construct(cfg)
    \/ AgentListen
    \/ AgentRequest

SpecPage == InitPage /\ [][NextPage]_vars

\* the account updates under concurrency: up to MaxConcurrent calls of
\* request('eth_accounts') and enable() are in flight while the host answers
\* them in any order and pushes accountsChanged
MaxConcurrent == 2

AccountResponses ==
    {Undefined, HostResp(Undefined, UserRejected)}
      \cup {HostResp(r, Undefined) : r \in AccountResults}

InitAccounts ==
    /\ InitProvider
    /\ announced = selectedAddress
    /\ stale = [calls |-> EmptyBag, job |-> FALSE]
    /\ window = construct(Page(Absent), DefaultConfig)

\* the address of the accountsChanged payload the starting job emits, if any
Announce(j) == IF j.emit.event = "accountsChanged" THEN OrElse(Index0(j.emit.args), Null) ELSE announced

\* once an account update is processed, every call still in flight was
\* issued before it
Overtaken(j, calls) == IF IsAccountUpdate(j) THEN pending' ELSE calls

AccountsRequest ==
    /\ IssueWithin(request("request", "object", "eth_accounts"), MaxConcurrent)
    /\ UNCHANGED <<announced, stale, window>>

AccountsEnable ==
    /\ IssueWithin(enable, MaxConcurrent)
    /\ UNCHANGED <<announced, stale, window>>

\* the host answers a call; old: the call was issued before the account
\* update processed last
AccountsRespond(call, raw, old) ==
    /\ HostRespond(call, raw)
    /\ IF old
       THEN CopiesIn(call, stale.calls) > 0
       ELSE CopiesIn(call, pending) > CopiesIn(call, stale.calls)
    /\ announced' = Announce(job')
    /\ stale' = [calls |-> Overtaken(job', IF old THEN stale.calls (-) SetToBag({call})
                                                    ELSE stale.calls),
                 job |-> old]
    /\ UNCHANGED window

AccountsPush(payload) ==
    /\ HostPush("accountsChanged", payload)
    /\ announced' = Announce(job')
    /\ stale' = [calls |-> Overtaken(job', stale.calls), job |-> FALSE]
    /\ UNCHANGED window

AccountsReturn ==
    /\ Return
    /\ stale' = [stale EXCEPT !.job = FALSE]
    /\ UNCHANGED <<announced, window>>

NextAccounts ==
    \/ AccountsRequest
    \/ AccountsEnable
    \/ \E c \in DOMAIN pending, raw \in AccountResponses, old \in BOOLEAN :
          AccountsRespond(c, raw, old)
    \/ \E p \in PushPayloads("accountsChanged") : AccountsPush(p)
    \/ InvokeListener /\ Quiet
    \/ FinishEmit /\ Quiet
    \/ Deliver /\ Quiet
    \/ AccountsReturn
    \/ On("accountsChanged", "hA") /\ Quiet

SpecAccounts == InitAccounts /\ [][NextAccounts]_vars

\* ------------------------------------------------------------------------
\* Properties
\* ------------------------------------------------------------------------
Running == job.stage # "idle"
FromRequest == Running /\ job.call.form = "request"
FromPayload == Running /\ job.call.form = "payload"
FromPush == Running /\ job.call.form = "push"

\* the stored address, lower-cased ("" for null)
StoredLower(sel) == IF sel.t = "string" THEN toLowerCase(sel).v ELSE ""

\* the address an account update makes the selected one
NewAddress(s) == IF Truthy(Index0(s)) THEN Index0(s) ELSE Null

HeardHandlers == [i \in 1..Len(job.heard) |-> job.heard[i].fn]

EmitsAccounts == job.emit.event = "accountsChanged"

\* C1: an account update (a successful eth_requestAccounts/eth_accounts with
\* an array result, or a host push of accountsChanged) emits accountsChanged
\* if and only if the lower-cased new first address ("" when there is none)
\* differs from the lower-cased previous selectedAddress; an update that
\* repeats the address of the update before it emits nothing, so the same
\* address applied twice in a row is announced once, by its first application.
C1_AccountsChangedIffAddressDiffers ==
    (Running /\ IsAccountUpdate(job)) =>
        /\ EmitsAccounts <=> (FirstAddress(Candidate(job)) # StoredLower(job.before.sel))
        /\ hist = FirstAddress(Candidate(job)) => ~EmitsAccounts
        /\ selectedAddress = NewAddress(Candidate(job))

\* C1 witness: the address 0xa applied twice in a row through request, the
\* second time in another spelling: the stored address changes, nothing is emitted
C1_Witness ==
    /\ job.stage = "delivered"
    /\ FromRequest
    /\ IsAccountUpdate(job)
    /\ hist = "0xa"
    /\ FirstAddress(Candidate(job)) = "0xa"
    /\ selectedAddress # job.before.sel
    /\ ~EmitsAccounts

\* C2: an account transition with the sequence S driven through the client
\* path ends in the selectedAddress and emits the payloads that the host path
\* yields from the same state, and the other way round.
C2_ClientAndHostPathConverge ==
    (Running /\ IsAccountUpdate(job) /\ Candidate(job).t = "array") =>
        LET other == IF job.call.form = "push"
                     THEN AccountsFromResult(job.before.sel, Candidate(job))
                     ELSE AccountsFromHost(job.before.sel, Candidate(job))
        IN  /\ selectedAddress = other.sel
            /\ job.emit = other.emit

\* C2 witness: a host push of a sequence whose first address is new has emitted
C2_Witness ==
    /\ job.stage = "delivered"
    /\ FromPush
    /\ IsAccountUpdate(job)
    /\ Candidate(job).t = "array"
    /\ EmitsAccounts
    /\ job.heard # <<>>

\* C3: when a successful request changes selectedAddress or chainId, every
\* listener invoked read the new value from the provider, and every listener
\* of the event has been invoked before the outcome reaches the caller.
C3_MutateThenEmitThenDeliver ==
    (FromRequest /\ job.emit.event # "") =>
        /\ \A i \in 1..Len(job.heard) :
              IF EmitsAccounts
              THEN /\ job.heard[i].sel = NewAddress(job.host.value)
                   /\ job.heard[i].sel # job.before.sel
              ELSE /\ job.heard[i].chain = job.host.value
                   /\ job.heard[i].chain # job.before.chain
        /\ job.stage \in {"settled", "delivered"} => HeardHandlers = job.audience

\* C3 witness: a request whose outcome was delivered after two listeners ran
C3_Witness ==
    /\ job.stage = "delivered"
    /\ FromRequest
    /\ EmitsAccounts
    /\ Len(job.heard) = 2
    /\ job.before.sel # Null

\* C4: a request issued while window.flutter_inappwebview.callHandler is
\* absent returns a promise (no synchronous throw) that is rejected with code
\* -32603 and never resolved, whatever the method.
C4_NoChannelRejects ==
    (FromRequest /\ ~job.channel) =>
        /\ job.call.ret = "promise"
        /\ job.outcome.kind = "reject"
        /\ Prop(job.outcome.value, "code") = Num(INTERNAL_ERROR)
        /\ job.emit = NoEmit
        /\ selectedAddress = job.before.sel
        /\ chainId = job.before.chain

\* C4 witness: such a rejection delivered to the caller of request('eth_chainId')
C4_Witness ==
    /\ job.stage = "delivered"
    /\ FromRequest
    /\ ~job.channel
    /\ job.call.method = "eth_chainId"

\* the host answered the call of the running job with a response that
\* carries an error
HostGaveError == Running /\ job.channel /\ job.raw.t = "object" /\ Truthy(Prop(job.raw, "error"))
GivenError == Prop(job.raw, "error")

\* the host's code, or -32603 when it gives none
CodeOrInternal(error) ==
    IF Prop(error, "code").t = "number" THEN Prop(error, "code") ELSE Num(INTERNAL_ERROR)

\* C5 as stated: a response with an error field makes request reject, never
\* resolve, with exactly the host's code (or -32603), message and data, and
\* the caller of request or enable gets that error unchanged.
C5_HostErrorCarriedExactly ==
    (FromRequest /\ HostGaveError) =>
        /\ job.outcome.kind = "reject"
        /\ job.outcome = job.host
        /\ Prop(job.outcome.value, "code") = CodeOrInternal(GivenError)
        /\ Prop(GivenError, "message").t = "string" =>
              Prop(job.outcome.value, "message") = Prop(GivenError, "message")
        /\ Prop(job.outcome.value, "data") = Prop(GivenError, "data")

\* C5 amended: as above, but the rejection carries the host's message only
\* when that is a non-empty string, and 'Provider error' otherwise.
C5_HostErrorCarried ==
    (FromRequest /\ HostGaveError) =>
        /\ job.outcome.kind = "reject"
        /\ job.outcome = job.host
        /\ Prop(job.outcome.value, "code") = CodeOrInternal(GivenError)
        /\ Prop(job.outcome.value, "message") =
              (IF Prop(GivenError, "message").t = "string" /\ Prop(GivenError, "message").v # ""
               THEN Prop(GivenError, "message") ELSE Str("Provider error"))
        /\ Prop(job.outcome.value, "data") = Prop(GivenError, "data")
        /\ selectedAddress = job.before.sel
        /\ chainId = job.before.chain

\* C5 witness: enable() rejected with the host's 4001 'User rejected'
C5_Witness ==
    /\ job.stage = "delivered"
    /\ job.call.api = "enable"
    /\ HostGaveError
    /\ Prop(job.outcome.value, "code") = Num(4001)
    /\ Prop(job.outcome.value, "message") = Str("User rejected")

\* C6 as stated: every rejection of request or enable carries an integer
\* code; a response text that fails to decode rejects with code -32603.
C6_EveryRejectionCoded ==
    (FromRequest /\ job.outcome.kind = "reject") =>
        /\ Prop(job.outcome.value, "code").t = "number"
        /\ (job.raw.t = "string" /\ ~JSONparse(job.raw.v).ok) =>
              Prop(job.outcome.value, "code") = Num(INTERNAL_ERROR)

\* the envelope a payload-form call settles with
EnvelopeOf(j) == j.outcome.value

\* C7: a payload-form send without a callback returns a promise that always
\* resolves with {id, jsonrpc: '2.0', result} holding the host's result when
\* the bridge call succeeds, and with {id, jsonrpc: '2.0', error: {code,
\* message, data}} taken from the failure otherwise; id is the payload's id.
C7_PayloadSendResolvesEnvelope ==
    (FromPayload /\ job.call.api = "send" /\ job.call.cb = "none") =>
        /\ job.call.ret = "promise"
        /\ job.outcome.kind = "resolve"
        /\ EnvelopeOf(job).t = "object"
        /\ Prop(EnvelopeOf(job), "id") = job.call.pid
        /\ Prop(EnvelopeOf(job), "jsonrpc") = Str("2.0")
        /\ IF job.host.kind = "resolve"
           THEN /\ DOMAIN EnvelopeOf(job).v = {"id", "jsonrpc", "result"}
                /\ Prop(EnvelopeOf(job), "result") = job.host.value
                /\ (job.raw.t = "object" /\ job.channel) =>
                      Prop(EnvelopeOf(job), "result") = Prop(job.raw, "result")
           ELSE /\ DOMAIN EnvelopeOf(job).v = {"id", "jsonrpc", "error"}
                /\ DOMAIN Prop(EnvelopeOf(job), "error").v = {"code", "message", "data"}
                /\ Prop(Prop(EnvelopeOf(job), "error"), "code") =
                      CodeOrInternal(job.host.value)
                /\ Prop(Prop(EnvelopeOf(job), "error"), "message") =
                      Prop(job.host.value, "message")
                /\ Prop(Prop(EnvelopeOf(job), "error"), "data") =
                      Prop(job.host.value, "data")
                /\ HostGaveError =>
                      Prop(Prop(EnvelopeOf(job), "error"), "code") = CodeOrInternal(GivenError)
                /\ ~job.channel =>
                      Prop(Prop(EnvelopeOf(job), "error"), "code") = Num(INTERNAL_ERROR)

\* C7 witness: send({id: 7, method: 'eth_chainId'}) resolved with the error
\* envelope of the host's 4001
C7_Witness ==
    /\ job.stage = "delivered"
    /\ FromPayload
    /\ job.call.api = "send"
    /\ job.call.cb = "none"
    /\ job.call.pid = Num(7)
    /\ HostGaveError
    /\ Prop(Prop(EnvelopeOf(job), "error"), "code") = Num(4001)

\* C8 as stated: in callback mode no promise is returned and the callback is
\* invoked as (error, null) when the bridge call fails and as (null, envelope)
\* when it succeeds.
C8_CallbackGetsErrorOnFailure ==
    (FromPayload /\ job.call.cb # "none" /\ job.stage = "delivered") =>
        /\ job.call.ret = "undefined"
        /\ job.cbCalls # <<>>
        /\ IF job.host.kind = "reject"
           THEN job.cbCalls[1].err # Null /\ job.cbCalls[1].res = Null
           ELSE job.cbCalls[1].err = Null /\ job.cbCalls[1].res = EnvelopeOf(job)

\* C9: the payload form of send and sendAsync leaves selectedAddress and
\* chainId alone and emits nothing, whatever the method and the host's
\* result; send with a method name takes request's path and synchronizes.
C9_PayloadFormDoesNotSync ==
    /\ FromPayload =>
          /\ selectedAddress = job.before.sel
          /\ chainId = job.before.chain
          /\ job.emit = NoEmit
          /\ job.heard = <<>>
    /\ (Running /\ job.call.api = "send" /\ job.call.arg = "string") =>
          /\ job.call = [request("request", "object", job.call.method)
                            EXCEPT !.api = "send", !.arg = "string"]
          /\ (job.host.kind = "resolve" /\ job.host.value.t = "array") =>
                /\ selectedAddress = NewAddress(job.host.value)
                /\ EmitsAccounts <=>
                      (FirstAddress(job.host.value) # StoredLower(job.before.sel))

\* C9 witness: sendAsync({method: 'eth_accounts'}, cb) answered with an
\* address that is not the selected one
C9_Witness ==
    /\ job.stage = "delivered"
    /\ FromPayload
    /\ job.call.api = "sendAsync"
    /\ job.call.method = "eth_accounts"
    /\ job.host.kind = "resolve"
    /\ job.host.value.t = "array"
    /\ FirstAddress(job.host.value) # StoredLower(selectedAddress)

Throwers(q) == Len(SelectSeq(q, Throws))

\* C10: a listener that throws stops neither the remaining listeners nor
\* the caller of emit: once the handler has returned, every listener of the
\* event was invoked, each failure was logged, a request resolves with the
\* host's result with its state update applied, and _emitFromHost returns.
C10_ThrowingListenerIsolated ==
    (Running /\ job.emit.event # "" /\ job.stage \in {"settled", "delivered"}) =>
        /\ HeardHandlers = job.audience
        /\ job.logged = Throwers(job.audience)
        /\ FromRequest =>
              /\ job.outcome = Settled("resolve", job.host.value)
              /\ IF EmitsAccounts
                 THEN selectedAddress = NewAddress(job.host.value)
                 ELSE chainId = job.host.value
        /\ FromPush => job.outcome.kind = "return"

\* C10 witness: a request resolved although the first of its two listeners threw
C10_Witness ==
    /\ job.stage = "delivered"
    /\ FromRequest
    /\ job.audience = <<"hThrow", "hA">>
    /\ HeardHandlers = job.audience
    /\ job.outcome.kind = "resolve"

\* C11 as stated: whatever on/removeListener calls were made, also by
\* handlers during an emission, one emit invokes no handler twice.
C11_HandlerInvokedAtMostOnce ==
    Running =>
        \A i, k \in 1..Len(job.heard) : job.heard[i].fn = job.heard[k].fn => i = k

\* the providers constructed with discovery enabled
Discoverable == window.announcers

\* the requests the agent dispatched once provider i was constructed
RequestsSince(i) == Len(SelectSeq(window.agent.requests, LAMBDA built : built >= i))

\* the agent listened when provider i was constructed
ListenedAtConstruction(i) == window.agent.listening /\ window.agent.since < i

\* C12 as stated: an agent that dispatched eip6963:requestProvider, before
\* or after the construction of a provider with discovery enabled, has
\* observed exactly one eip6963:announceProvider of that provider.
C12_ExactlyOneAnnouncement ==
    \A i \in Discoverable :
        Len(window.agent.requests) = 1 => window.observed[i] = 1

\* C12 amended: such an agent has observed at least one announcement of the
\* provider: the one of the construction if it listened then, and one more
\* for each request it dispatched after the construction.
C12_AnnouncedAtLeastOnce ==
    \A i \in Discoverable :
        /\ Len(window.agent.requests) >= 1 => window.observed[i] >= 1
        /\ window.observed[i] =
              (IF ListenedAtConstruction(i) THEN 1 ELSE 0) + RequestsSince(i)

\* C12 witness: the agent requested before the provider was constructed and
\* has received the announcement of the construction
C12_Witness ==
    /\ window.agent.requests = <<0>>
    /\ window.built = 1
    /\ 1 \in Discoverable
    /\ window.observed[1] = 1

Constructed == window.last.id > 0
LastConfig == window.last.cfg
HadExisting == Truthy(window.last.before.value)

\* C13: a construction with forceReplace false on a page whose
\* window.ethereum holds a provider returns its provider, leaves
\* window.ethereum as it was and dispatches no ethereum#initialized; a
\* construction dispatches the signal once if it installed its provider and
\* not at all otherwise.
C13_NonForcedLeavesInstalled ==
    Constructed =>
        /\ (~LastConfig.forceReplace /\ HadExisting) =>
              /\ window.ethereum = window.last.before
              /\ window.signals = window.last.signals
              /\ window.last.result = "provider"
        /\ window.signals =
              window.last.signals + (IF window.ethereum # window.last.before THEN 1 ELSE 0)

\* C13 witness: the second construction found the provider of the first
\* installed and left it there, with the one signal of the first
C13_Witness ==
    /\ window.last.id = 2
    /\ ~LastConfig.forceReplace
    /\ LastConfig.autoInject
    /\ window.last.before.value = Provider(1)
    /\ window.ethereum.value = Provider(1)
    /\ window.signals = 1

\* C14 as stated: with autoInject not false a construction installs its
\* provider as window.ethereum when there is no global provider or
\* forceReplace is set, whoever installed the existing one, and returns the
\* provider; in every other case it leaves window.ethereum as it was.
C14_InstallsWheneverAllowed ==
    Constructed =>
        IF LastConfig.autoInject /\ (~HadExisting \/ LastConfig.forceReplace)
        THEN /\ window.ethereum.value = Provider(window.last.id)
             /\ window.last.result = "provider"
        ELSE window.ethereum = window.last.before

\* the job is a chain update: a successful eth_chainId whose result is a
\* string, or a host push of chainChanged
IsChainUpdate(j) ==
    \/ /\ j.call.form = "request"
       /\ j.call.method = "eth_chainId"
       /\ j.host.kind = "resolve"
       /\ j.host.value.t = "string"
    \/ /\ j.call.form = "push"
       /\ j.call.method = "chainChanged"

EmitsChain == job.emit.event = "chainChanged"

\* C15: a chain update through either path stores the new chain id and
\* emits chainChanged, with the new chain id as its payload, if and only if
\* that is not strictly equal to the previous chainId; for a chain id string
\* the other path yields the same chainId and the same emission from the
\* same state.
C15_ChainChangedIffNotStrictlyEqual ==
    (Running /\ IsChainUpdate(job)) =>
        /\ chainId = Candidate(job)
        /\ EmitsChain <=> (Candidate(job) # job.before.chain)
        /\ EmitsChain => job.emit.args = Candidate(job)
        /\ ~EmitsChain => job.emit = NoEmit
        /\ Candidate(job).t = "string" =>
              LET other == IF job.call.form = "push"
                           THEN ChainFromResult(job.before.chain, Candidate(job))
                           ELSE ChainFromHost(job.before.chain, Candidate(job))
              IN  /\ chainId = other.chain
                  /\ job.emit = other.emit

\* C15 witness: the host pushed the chain id the provider already had, and
\* nothing was emitted
C15_Witness ==
    /\ job.stage = "delivered"
    /\ FromPush
    /\ IsChainUpdate(job)
    /\ Candidate(job) = Str("0x2")
    /\ job.before.chain = Str("0x2")
    /\ ~EmitsChain

\* the host answered the call of the running job with null or with nothing
HostGaveNothing == Running /\ job.channel /\ job.raw.t \in {"undefined", "null"}

\* C16: a null or absent host response makes request resolve with null,
\* whatever the method; selectedAddress and chainId stay as they were and no
\* listener is invoked.
C16_AbsentResponseResolvesNull ==
    (FromRequest /\ HostGaveNothing) =>
        /\ job.outcome = Settled("resolve", Null)
        /\ selectedAddress = job.before.sel
        /\ chainId = job.before.chain
        /\ job.emit = NoEmit
        /\ job.heard = <<>>

\* C16 witness: request('eth_accounts') answered with nothing while an
\* address is selected and accountsChanged has a listener
C16_Witness ==
    /\ job.stage = "delivered"
    /\ FromRequest
    /\ HostGaveNothing
    /\ job.call.method = "eth_accounts"
    /\ job.raw = Undefined
    /\ selectedAddress # Null
    /\ listeners["accountsChanged"] # <<>>

\* a step in which a handler of the provider starts to run
Starts == job.stage = "idle" /\ job'.stage # "idle"

\* C17: selectedAddress and chainId change only in the step that processes
\* a successful response of eth_requestAccounts/eth_accounts with an array
\* or of eth_chainId with a string, or a host push of accountsChanged or
\* chainChanged.  Any other request settles with what callHost settled with
\* and emits nothing; a host push of any other event emits that event with
\* the payload as it came to the listeners of that event.
C17_StateChangesOnlyByUpdates ==
    [][/\ (selectedAddress' # selectedAddress \/ chainId' # chainId) =>
              /\ Starts
              /\ IsAccountUpdate(job') \/ IsChainUpdate(job')
       /\ (Starts /\ job'.call.form = "request"
              /\ ~IsAccountUpdate(job') /\ ~IsChainUpdate(job')) =>
              /\ job'.outcome = job'.host
              /\ job'.emit = NoEmit
       /\ (Starts /\ job'.call.form = "push"
              /\ job'.call.method \notin {"accountsChanged", "chainChanged"}) =>
              /\ job'.emit = [event |-> job'.call.method, args |-> job'.raw]
              /\ job'.audience = listeners[job'.call.method]
              /\ job'.todo = job'.audience
      ]_vars

\* C17 witness: request('net_version') resolved with the array of addresses
\* the host returned, and the selected address is still another one
C17_Witness ==
    /\ job.stage = "delivered"
    /\ FromRequest
    /\ job.call.method = "net_version"
    /\ job.outcome = Settled("resolve", Arr(<<Str("0xb"), Str("0xa")>>))
    /\ selectedAddress = Str("0xa")
    /\ job.before.sel = Str("0xa")

\* an address without its letter case ("" for null): what a case-insensitive
\* comparison of two addresses compares
Folded(x) ==
    IF x.t # "string" THEN ""
    ELSE IF x.v \in DOMAIN UpperToLower THEN UpperToLower[x.v] ELSE x.v

\* C18: an account update whose address is the selected one up to letter
\* case stores the new spelling, emits nothing and invokes no listener; and
\* in every state selectedAddress is, up to letter case, the address of the
\* accountsChanged payload emitted last (the initial address before the
\* first emission).
C18_CaseOnlyUpdateIsSilent ==
    /\ (Running /\ IsAccountUpdate(job)
          /\ Folded(NewAddress(Candidate(job))) = Folded(job.before.sel)) =>
          /\ selectedAddress = NewAddress(Candidate(job))
          /\ ~EmitsAccounts
          /\ job.heard = <<>>
    /\ Folded(selectedAddress) = Folded(announced)

\* C18 witness: 0xa was selected and announced, the host pushed 0xA: the
\* provider reports 0xA, which no accountsChanged payload ever carried
C18_Witness ==
    /\ job.stage = "delivered"
    /\ FromPush
    /\ IsAccountUpdate(job)
    /\ job.before.sel = Str("0xa")
    /\ selectedAddress = Str("0xA")
    /\ announced = Str("0xa")
    /\ hist = "0xa"
    /\ listeners["accountsChanged"] # <<>>

\* C19: however the calls in flight and the host pushes interleave, the
\* account update processed last decides: while it runs selectedAddress is
\* its candidate address, whether or not the call it answers was issued
\* before an update processed earlier, and it emits accountsChanged with that
\* address when the address differs from the one it replaced; until the
\* next update selectedAddress stays the address of the last one.
C19_LastProcessedUpdateWins ==
    /\ (Running /\ IsAccountUpdate(job)) =>
          /\ selectedAddress = NewAddress(Candidate(job))
          /\ EmitsAccounts <=> (Folded(selectedAddress) # Folded(job.before.sel))
          /\ EmitsAccounts =>
                job.emit.args = (IF selectedAddress = Null THEN Arr(<<>>)
                                 ELSE Arr(<<selectedAddress>>))
    /\ (~(Running /\ IsAccountUpdate(job)) /\ hist # "none") =>
          Folded(selectedAddress) = hist

\* C19 witness: a request issued before the update that made 0xb the
\* selected address was answered after it, while another call is in flight:
\* its address replaced 0xb and was announced
C19_Witness ==
    /\ job.stage = "delivered"
    /\ FromRequest
    /\ IsAccountUpdate(job)
    /\ stale.job
    /\ BagCardinality(pending) = 1
    /\ hist = "0xb"
    /\ job.before.sel = Str("0xb")
    /\ selectedAddress = Str("0xa")
    /\ EmitsAccounts
    /\ job.heard # <<>>

\* C20 as stated: in callback mode the callback is invoked exactly once per
\* call, whatever the bridge call ends in and whether or not the callback
\* throws.
C20_CallbackInvokedOnce ==
    (FromPayload /\ job.call.cb # "none" /\ job.stage = "delivered") =>
        Len(job.cbCalls) = 1

====
